---- MODULE Spec2Model ----
(***************************************************************************)
(* Model of app.py (EchoText): the /upload pipeline                        *)
(*   transcribe_audio -> summarize_text_offline -> Firestore record,       *)
(* together with the session handlers that gate it.                        *)
(*                                                                         *)
(* Text is modelled as a sequence of character codes, so that slicing,     *)
(* joining and stripping are computed the way Python computes them.        *)
(* The Vosk recognizer, the BART summarizer and Firebase are black boxes:  *)
(* every answer they can give (a value or a raised exception) is a         *)
(* nondeterministic choice of the action that calls them.  The variables   *)
(* readCalls, recCalls, recLog, finalLog, calls, outputs and stages record *)
(* what was asked of those collaborators, as a mock would.                 *)
(***************************************************************************)
EXTENDS Integers, Sequences, FiniteSets, TLC

VARIABLES
    session,    \* Flask session: NoneV or the logged-in user
    records,    \* Firestore collection "records", in insertion order
    upc,        \* position of the /upload handler
    resp,       \* last HTTP response of /upload
    stages,     \* pipeline stages entered by the current /upload run
    tpc,        \* position inside transcribe_audio
    audio,      \* the file transcribe_audio was called on
    audioOpen,  \* the wave handle: TRUE between wave.open and audio.close
    pos,        \* frames already consumed from the wave handle
    text,       \* local `text` of transcribe_audio
    t_ret,      \* the (value, error) pair transcribe_audio returned
    t_exc,      \* the call whose exception left transcribe_audio, or ""
    readCalls,  \* number of audio.readframes calls of this run
    recCalls,   \* number of KaldiRecognizer constructions of this run
    recLog,     \* texts obtained from rec.Result(), in call order
    finalLog,   \* texts obtained from rec.FinalResult()
    spc,        \* position inside summarize_text_offline
    s_text,     \* argument `text` of summarize_text_offline
    prompt,     \* local `prompt`
    chunks,     \* local `chunks`
    summaries,  \* local `summaries`
    calls,      \* chunks handed to summarizer(...), in call order
    outputs,    \* summary texts summarizer(...) answered, in call order
    s_ret,      \* the (value, error) pair summarize_text_offline returned
    s_exc       \* the call whose exception left summarize_text_offline, or ""

vars == <<session, records, upc, resp, stages, tpc, audio, audioOpen, pos, text,
          t_ret, t_exc, readCalls, recCalls, recLog, finalLog, spc, s_text, prompt,
          chunks, summaries, calls, outputs, s_ret, s_exc>>

uvars == <<session, records, upc, resp, stages>>
tvars == <<tpc, audio, audioOpen, pos, text, t_ret, t_exc, readCalls, recCalls, recLog, finalLog>>
svars == <<spc, s_text, prompt, chunks, summaries, calls, outputs, s_ret, s_exc>>

----------------------------------------------------------------------------
(* Bounds of the model *)

\* longest audio file, in 4000-frame batches
MaxBatches == 2
\* longest prompt, in 1200-character chunks
MaxChunks == 3
\* records the collection may hold before /upload stops being exercised
MaxRecords == 1

----------------------------------------------------------------------------
(* Python values *)

NoneV == [tag |-> "None"]
Str(s) == [tag |-> "str", s |-> s]
Msg(m) == [tag |-> "msg", m |-> m]

\* truthiness of an error slot, as tested by `if err:`
Truthy(e) == e.tag = "msg" /\ e.m # ""

\* str.isspace for the ASCII range
Whitespace == {9, 10, 11, 12, 13, 28, 29, 30, 31, 32}

\* str.strip()
Strip(s) ==
    LET n == Len(s)
        a == CHOOSE i \in 1..(n + 1) :
                /\ (i = n + 1 \/ s[i] \notin Whitespace)
                /\ \A j \in 1..(i - 1) : s[j] \in Whitespace
        b == CHOOSE i \in 0..n :
                /\ (i = 0 \/ s[i] \notin Whitespace)
                /\ \A j \in (i + 1)..n : s[j] \in Whitespace
    IN  IF a > b THEN <<>> ELSE SubSeq(s, a, b)

\* prompt[i:j], a Python slice with 0 <= i: characters i .. min(j, len)-1
Slice(s, i, j) == SubSeq(s, i + 1, IF j < Len(s) THEN j ELSE Len(s))

\* " ".join(parts)
RECURSIVE JoinSpace(_)
JoinSpace(parts) ==
    IF Len(parts) = 0 THEN <<>>
    ELSE IF Len(parts) = 1 THEN parts[1]
    ELSE parts[1] \o <<32>> \o JoinSpace(Tail(parts))

\* str.lower() for the ASCII range
Lower(s) == [i \in 1..Len(s) |-> IF s[i] >= 65 /\ s[i] <= 90 THEN s[i] + 32 ELSE s[i]]

----------------------------------------------------------------------------
(* transcribe_audio *)

MinRate == 8000
MaxRate == 48000
BatchFrames == 4000

InvalidAudioFormat == "Audio must be WAV mono PCM (16-bit)."

\* ValidFormat with the sample-width test forgotten
ValidFormat_NoWidth(a) ==
    ~(a.nchannels # 1 \/ ~(MinRate <= a.framerate /\ a.framerate <= MaxRate))

\* negation of the condition of the `if` at the top of transcribe_audio
ValidFormat(a) ==
    ~(a.nchannels # 1 \/ a.sampwidth # 2 \/ ~(MinRate <= a.framerate /\ a.framerate <= MaxRate))

\* ReadFrames that hands out one frame less than asked for
ReadFrames_Short(a, p, n) ==
    LET k == IF a.nframes - p < n - 1 THEN a.nframes - p ELSE n - 1
    IN  [frames |-> k, bytes |-> k * a.nchannels * a.sampwidth]

\* len(audio.readframes(n)) with p frames already consumed: the frames left,
\* at most n, each nchannels * sampwidth bytes
ReadFrames(a, p, n) ==
    LET k == IF a.nframes - p < n THEN a.nframes - p ELSE n
    IN  [frames |-> k, bytes |-> k * a.nchannels * a.sampwidth]

\* json.loads(rec.Result()).get("text", ""): the key may be absent
ResultTexts == {<<>>, <<104, 105>>, <<32, 121, 111>>}
ResultJsons == {[has |-> FALSE]} \cup {[has |-> TRUE, text |-> s] : s \in ResultTexts}
GetText(j) == IF j.has THEN j.text ELSE <<>>

\* AppendPart with the separator forgotten
AppendPart_NoSep(t, part) == t \o part

\* text += part + " "
AppendPart(t, part) == t \o part \o <<32>>

\* text += final
AppendFinal(t, final) == t \o final

\* audio = wave.open(file_path, "rb"): raises wave.Error on a file that is
\* not an uncompressed RIFF/WAVE container
T_Open ==
    /\ tpc = "open"
    /\ IF audio.wave_ok
         THEN audioOpen' = TRUE /\ tpc' = "validate" /\ UNCHANGED t_exc
         ELSE audioOpen' = FALSE /\ tpc' = "raised" /\ t_exc' = "wave.open"
    /\ UNCHANGED <<audio, pos, text, t_ret, readCalls, recCalls, recLog, finalLog>>
    /\ UNCHANGED <<uvars, svars>>

\* the format check: close and return (None, message) on a bad format
T_Validate ==
    /\ tpc = "validate"
    /\ IF ValidFormat(audio)
         THEN /\ tpc' = "newrec"
              /\ UNCHANGED <<audioOpen, t_ret>>
         ELSE /\ audioOpen' = FALSE
              /\ t_ret' = [val |-> NoneV, err |-> Msg(InvalidAudioFormat)]
              /\ tpc' = "done"
    /\ UNCHANGED <<audio, pos, text, t_exc, readCalls, recCalls, recLog, finalLog>>
    /\ UNCHANGED <<uvars, svars>>

\* rec = KaldiRecognizer(vosk_model, rate); text = ""
T_NewRecognizer ==
    /\ tpc = "newrec"
    /\ recCalls' = recCalls + 1
    /\ \/ tpc' = "loop" /\ text' = <<>> /\ UNCHANGED t_exc
       \/ tpc' = "raised" /\ t_exc' = "KaldiRecognizer" /\ UNCHANGED text
    /\ UNCHANGED <<audio, audioOpen, pos, t_ret, readCalls, recLog, finalLog>>
    /\ UNCHANGED <<uvars, svars>>

\* one iteration of the `while True` loop
T_ReadBatch ==
    /\ tpc = "loop"
    /\ LET data == ReadFrames(audio, pos, BatchFrames)
       IN  /\ readCalls' = readCalls + 1
           /\ pos' = pos + data.frames
           /\ IF data.bytes = 0
                THEN tpc' = "final" /\ UNCHANGED <<text, recLog, t_exc>>
                ELSE \* AcceptWaveform raises
                     \/ tpc' = "raised" /\ t_exc' = "AcceptWaveform" /\ UNCHANGED <<text, recLog>>
                     \* AcceptWaveform is False
                     \/ tpc' = "loop" /\ UNCHANGED <<text, recLog, t_exc>>
                     \* AcceptWaveform is True
                     \/ \E j \in ResultJsons :
                            /\ text' = AppendPart(text, GetText(j))
                            /\ recLog' = Append(recLog, GetText(j))
                            /\ tpc' = "loop"
                            /\ UNCHANGED t_exc
    /\ UNCHANGED <<audio, audioOpen, t_ret, recCalls, finalLog>>
    /\ UNCHANGED <<uvars, svars>>

\* final result, close, return (text.strip(), None)
T_Final ==
    /\ tpc = "final"
    /\ \/ /\ tpc' = "raised"                                    \* FinalResult raises
          /\ t_exc' = "FinalResult"
          /\ UNCHANGED <<text, finalLog, audioOpen, t_ret>>
       \/ \E j \in ResultJsons :
            /\ UNCHANGED t_exc
            /\ text' = AppendFinal(text, GetText(j))
            /\ finalLog' = Append(finalLog, GetText(j))
            /\ audioOpen' = FALSE
            /\ t_ret' = [val |-> Str(Strip(text')), err |-> NoneV]
            /\ tpc' = "done"
    /\ UNCHANGED <<audio, pos, readCalls, recCalls, recLog>>
    /\ UNCHANGED <<uvars, svars>>

TranscribeNext == T_Open \/ T_Validate \/ T_NewRecognizer \/ T_ReadBatch \/ T_Final

\* the files transcribe_audio is run on
FrameCounts == {k * BatchFrames + d : k \in 0..(MaxBatches - 1), d \in {0, 1}} \cup {MaxBatches * BatchFrames}
Wav(ch, sw, rate, n) == [wave_ok |-> TRUE, nchannels |-> ch, sampwidth |-> sw, framerate |-> rate, nframes |-> n]
NotWav == [wave_ok |-> FALSE, nchannels |-> 0, sampwidth |-> 0, framerate |-> 0, nframes |-> 0]
ValidAudio == {Wav(1, 2, r, n) : r \in {MinRate, 16000, MaxRate}, n \in FrameCounts}
InvalidAudio ==
    {Wav(2, 2, 44100, BatchFrames), Wav(1, 1, 16000, BatchFrames), Wav(1, 3, 16000, 1),
     Wav(1, 2, MinRate - 1, BatchFrames), Wav(1, 2, MaxRate + 1, 1), Wav(2, 1, 96000, 0)}
AudioInputs == ValidAudio \cup InvalidAudio \cup {NotWav}

----------------------------------------------------------------------------
(* summarize_text_offline *)

max_chars == 1200

EmptyTranscript == "Empty transcript, cannot summarize."

\* the f-string up to {text}, as character codes
TemplateHead ==
    <<10, 89, 111, 117, 32, 97, 114, 101, 32, 97, 110, 32, 101, 120, 112, 101, 114, 116, 32, 109,
       101, 101, 116, 105, 110, 103, 32, 115, 117, 109, 109, 97, 114, 105, 122, 101, 114, 46, 10, 10,
       67, 114, 101, 97, 116, 101, 32, 97, 32, 99, 111, 110, 116, 101, 120, 116, 117, 97, 108, 32,
       115, 117, 109, 109, 97, 114, 121, 32, 119, 105, 116, 104, 58, 10, 49, 41, 32, 77, 97, 105,
       110, 32, 116, 111, 112, 105, 99, 10, 50, 41, 32, 75, 101, 121, 32, 112, 111, 105, 110, 116,
       115, 32, 40, 98, 117, 108, 108, 101, 116, 115, 41, 10, 51, 41, 32, 65, 99, 116, 105, 111,
       110, 32, 105, 116, 101, 109, 115, 32, 40, 105, 102, 32, 97, 110, 121, 41, 10, 52, 41, 32,
       73, 109, 112, 111, 114, 116, 97, 110, 116, 32, 101, 110, 116, 105, 116, 105, 101, 115, 32, 40,
       110, 97, 109, 101, 115, 44, 32, 100, 97, 116, 101, 115, 44, 32, 112, 108, 97, 99, 101, 115,
       41, 10, 10, 84, 114, 97, 110, 115, 99, 114, 105, 112, 116, 58, 10>>

\* the f-string after {text}
TemplateTail == <<10>>

\* prompt = f"""...{text}\n"""
Prompt(t) == TemplateHead \o t \o TemplateTail

\* IsEmptyTranscript with the whitespace test forgotten
IsEmptyTranscript_NoStrip(t) == Len(t) = 0

\* not text or not text.strip()
IsEmptyTranscript(t) == Len(t) = 0 \/ Len(Strip(t)) = 0

\* Range that stops at the last full step
Range_Floor(n, step) == [k \in 1..(n \div step) |-> (k - 1) * step]

\* list(range(0, n, step))
Range(n, step) == [k \in 1..((n + step - 1) \div step) |-> (k - 1) * step]

\* Chunks whose slices run one character into the next chunk
Chunks_Overlap(p) ==
    LET starts == Range(Len(p), max_chars)
    IN  [k \in 1..Len(starts) |-> Slice(p, starts[k], starts[k] + max_chars + 1)]

\* [prompt[i:i + max_chars] for i in range(0, len(prompt), max_chars)]
Chunks(p) ==
    LET starts == Range(Len(p), max_chars)
    IN  [k \in 1..Len(starts) |-> Slice(p, starts[k], starts[k] + max_chars)]

\* " ".join(summaries).strip()
Stitch(parts) == Strip(JoinSpace(parts))

\* out[0]["summary_text"]: what the generation model may answer
SummaryTexts == {<<65>>, <<32, 66, 46, 10>>}

\* the guard at the top of summarize_text_offline
S_Check ==
    /\ spc = "check"
    /\ IF IsEmptyTranscript(s_text)
         THEN /\ s_ret' = [val |-> NoneV, err |-> Msg(EmptyTranscript)]
              /\ spc' = "done"
         ELSE /\ spc' = "build"
              /\ UNCHANGED s_ret
    /\ UNCHANGED <<s_text, prompt, chunks, summaries, calls, outputs, s_exc>>
    /\ UNCHANGED <<uvars, tvars>>

\* prompt, chunks, summaries = []
S_Build ==
    /\ spc = "build"
    /\ prompt' = Prompt(s_text)
    /\ chunks' = Chunks(prompt')
    /\ summaries' = <<>>
    /\ spc' = "loop"
    /\ UNCHANGED <<s_text, calls, outputs, s_ret, s_exc>>
    /\ UNCHANGED <<uvars, tvars>>

\* one iteration of `for chunk in chunks`
S_Chunk ==
    /\ spc = "loop"
    /\ Len(summaries) < Len(chunks)
    /\ LET chunk == chunks[Len(summaries) + 1]
       IN  /\ calls' = Append(calls, chunk)
           /\ \/ spc' = "raised" /\ s_exc' = "summarizer" /\ UNCHANGED <<summaries, outputs>>
              \/ \E out \in SummaryTexts :
                    /\ summaries' = Append(summaries, out)
                    /\ outputs' = Append(outputs, out)
                    /\ UNCHANGED <<spc, s_exc>>
    /\ UNCHANGED <<s_text, prompt, chunks, s_ret>>
    /\ UNCHANGED <<uvars, tvars>>

\* return " ".join(summaries).strip(), None
S_Return ==
    /\ spc = "loop"
    /\ Len(summaries) = Len(chunks)
    /\ s_ret' = [val |-> Str(Stitch(summaries)), err |-> NoneV]
    /\ spc' = "done"
    /\ UNCHANGED <<s_text, prompt, chunks, summaries, calls, outputs, s_exc>>
    /\ UNCHANGED <<uvars, tvars>>

SummarizeNext == S_Check \/ S_Build \/ S_Chunk \/ S_Return

\* transcripts summarize_text_offline is run on: empty and blank ones, short
\* ones, and ones whose prompt ends one short of, on and one past a multiple
\* of max_chars
\* the prompt length of the five-chunk scenario
ScenarioLen == 5000
Letters(n) == [i \in 1..n |-> 97 + (i % 7)]
FixedLen == Len(TemplateHead) + Len(TemplateTail)
EdgeLens == {k * max_chars - FixedLen + d : k \in 1..MaxChunks, d \in {-1, 0, 1}}
Transcripts ==
    {<<>>, <<32, 32, 32>>, <<10, 9>>, <<104, 105>>, <<32, 104, 105, 32>>}
        \cup {Letters(n) : n \in EdgeLens \cup {ScenarioLen - FixedLen}}

----------------------------------------------------------------------------
\* a fresh activation of transcribe_audio(file)
TFrame(a, at) ==
    /\ tpc = at
    /\ audio = a
    /\ audioOpen = FALSE
    /\ pos = 0
    /\ text = <<>>
    /\ t_ret = [val |-> NoneV, err |-> NoneV]
    /\ t_exc = ""
    /\ readCalls = 0
    /\ recCalls = 0
    /\ recLog = <<>>
    /\ finalLog = <<>>

SFrame(t, at) ==
    /\ spc = at
    /\ s_text = t
    /\ prompt = <<>>
    /\ chunks = <<>>
    /\ summaries = <<>>
    /\ calls = <<>>
    /\ outputs = <<>>
    /\ s_ret = [val |-> NoneV, err |-> NoneV]
    /\ s_exc = ""

\* the activation record of a call: fresh on entry, discarded with the return
TFrameNext(a, at) ==
    /\ tpc' = at
    /\ audio' = a
    /\ audioOpen' = FALSE
    /\ pos' = 0
    /\ text' = <<>>
    /\ t_ret' = [val |-> NoneV, err |-> NoneV]
    /\ t_exc' = ""
    /\ readCalls' = 0
    /\ recCalls' = 0
    /\ recLog' = <<>>
    /\ finalLog' = <<>>

SFrameNext(t, at) ==
    /\ spc' = at
    /\ s_text' = t
    /\ prompt' = <<>>
    /\ chunks' = <<>>
    /\ summaries' = <<>>
    /\ calls' = <<>>
    /\ outputs' = <<>>
    /\ s_ret' = [val |-> NoneV, err |-> NoneV]
    /\ s_exc' = ""

UIdle ==
    /\ session = NoneV
    /\ records = <<>>
    /\ upc = "idle"
    /\ resp = NoneV
    /\ stages = <<>>

\* transcribe_audio alone, on every file of AudioInputs
TranscribeInit == UIdle /\ SFrame(<<>>, "idle") /\ \E a \in AudioInputs : TFrame(a, "open")
TranscribeSpec == TranscribeInit /\ [][TranscribeNext]_vars
FairTranscribeSpec == TranscribeSpec /\ WF_vars(TranscribeNext)

\* summarize_text_offline alone, on every transcript of Transcripts
SummarizeInit ==
    UIdle /\ TFrame(NotWav, "idle") /\ \E t \in Transcripts : SFrame(t, "check")
SummarizeSpec == SummarizeInit /\ [][SummarizeNext]_vars

----------------------------------------------------------------------------
(* Flask handlers *)

ALLOWED_EXTENSIONS == {<<119, 97, 118>>}

\* index of the last "." of the name, 0 when it has none
LastDot(name) ==
    IF \E i \in 1..Len(name) : name[i] = 46
      THEN CHOOSE i \in 1..Len(name) :
              name[i] = 46 /\ \A j \in (i + 1)..Len(name) : name[j] # 46
      ELSE 0

\* "." in filename and filename.rsplit(".", 1)[1].lower() in ALLOWED_EXTENSIONS
allowed_file(name) ==
    /\ LastDot(name) # 0
    /\ Lower(SubSeq(name, LastDot(name) + 1, Len(name))) \in ALLOWED_EXTENSIONS

\* "user" in session
require_login == session # NoneV

Users == {"u1", "u2"}
User(u) == [tag |-> "user", uid |-> u, email |-> u]

\* /signup: a POST that Firebase answers with 200 logs the new user in
signup ==
    /\ upc = "idle"
    /\ \E method \in {"GET", "POST"}, hasKey \in BOOLEAN, status \in {200, 400}, u \in Users :
          IF method = "POST" /\ hasKey /\ status = 200
            THEN session' = User(u)
            ELSE UNCHANGED session
    /\ UNCHANGED <<records, upc, resp, stages, tvars, svars>>

\* /login: a POST that Firebase answers with 200 logs the user in
login ==
    /\ upc = "idle"
    /\ \E method \in {"GET", "POST"}, status \in {200, 400}, u \in Users :
          IF method = "POST" /\ status = 200
            THEN session' = User(u)
            ELSE UNCHANGED session
    /\ UNCHANGED <<records, upc, resp, stages, tvars, svars>>

\* /logout: session.pop("user", None)
logout ==
    /\ upc = "idle"
    /\ session' = NoneV
    /\ UNCHANGED <<records, upc, resp, stages, tvars, svars>>

\* the files uploaded: every kind of AudioInputs, the valid ones at one rate
\* and of zero, one and two batches
UploadAudio ==
    {Wav(1, 2, 16000, n) : n \in {0, 1, BatchFrames + 1}} \cup InvalidAudio \cup {NotWav}

\* the multipart bodies /upload is sent
NoFile == [hasAudio |-> FALSE, filename |-> <<>>, audio |-> NotWav]
File(name, a) == [hasAudio |-> TRUE, filename |-> name, audio |-> a]
Requests ==
    {NoFile, File(<<>>, NotWav), File(<<97, 46, 109, 112, 51>>, NotWav),
     File(<<119, 97, 118>>, NotWav), File(<<98, 46, 87, 65, 86>>, Wav(1, 2, 16000, 1))}
        \cup {File(<<97, 46, 119, 97, 118>>, a) : a \in UploadAudio}

Response(code, body) == [tag |-> "response", status |-> code, body |-> body]

\* /upload up to the call of transcribe_audio
upload_begin ==
    /\ upc = "idle"
    /\ Len(records) < MaxRecords
    /\ \E req \in Requests :
          IF ~require_login
            THEN /\ resp' = Response(302, Msg("login"))
                 /\ stages' = <<>>
                 /\ UNCHANGED <<upc, tvars>>
          ELSE IF ~req.hasAudio
            THEN /\ resp' = Response(400, Msg("No audio uploaded"))
                 /\ stages' = <<>>
                 /\ UNCHANGED <<upc, tvars>>
          ELSE IF req.filename = <<>>
            THEN /\ resp' = Response(400, Msg("No selected file"))
                 /\ stages' = <<>>
                 /\ UNCHANGED <<upc, tvars>>
          ELSE IF ~allowed_file(req.filename)
            THEN /\ resp' = Response(400, Msg("Only .wav files allowed"))
                 /\ stages' = <<>>
                 /\ UNCHANGED <<upc, tvars>>
          ELSE /\ resp' = NoneV
               /\ stages' = <<"transcribe">>
               /\ upc' = "transcribing"
               /\ TFrameNext(req.audio, "open")
    /\ UNCHANGED <<session, records, svars>>

\* transcribe_audio returned: answer 400 on an error, else call
\* summarize_text_offline(transcript)
upload_transcribed ==
    /\ upc = "transcribing"
    /\ tpc = "done"
    /\ IF Truthy(t_ret.err)
         THEN /\ resp' = Response(400, t_ret.err)
              /\ upc' = "idle"
              /\ TFrameNext(NotWav, "idle")
              /\ UNCHANGED <<stages, svars>>
         ELSE /\ stages' = Append(stages, "summarize")
              /\ upc' = "summarizing"
              /\ SFrameNext(t_ret.val.s, "check")
              /\ UNCHANGED <<resp, tvars>>
    /\ UNCHANGED <<session, records>>

\* the record /upload adds to the collection; the uuid4 file name is the
\* number of the record, created_at is set by the server
Doc(user, name, transcript, summary) ==
    [uid |-> user.uid, email |-> user.email, filename |-> name,
     transcription |-> transcript, summary |-> summary]

\* upload_summarized with the `if err2` test forgotten
upload_summarized_NoCheck ==
    /\ upc = "summarizing"
    /\ spc = "done"
    /\ stages' = Append(stages, "persist")
    /\ records' = Append(records, [uid |-> session.uid, email |-> session.email,
                                    filename |-> Len(records) + 1,
                                    transcription |-> t_ret.val, summary |-> s_ret.val])
    /\ resp' = Response(200, [transcription |-> t_ret.val, summary |-> s_ret.val])
    /\ upc' = "idle"
    /\ TFrameNext(NotWav, "idle")
    /\ SFrameNext(<<>>, "idle")
    /\ UNCHANGED session

\* summarize_text_offline returned: answer 400 on an error, else store the
\* record and answer with the transcript and the summary
upload_summarized ==
    /\ upc = "summarizing"
    /\ spc = "done"
    /\ IF Truthy(s_ret.err)
         THEN /\ resp' = Response(400, s_ret.err)
              /\ UNCHANGED <<stages, records>>
         ELSE /\ stages' = Append(stages, "persist")
              /\ records' = Append(records, Doc(session, Len(records) + 1, t_ret.val, s_ret.val))
              /\ resp' = Response(200, [transcription |-> t_ret.val, summary |-> s_ret.val])
    /\ upc' = "idle"
    /\ TFrameNext(NotWav, "idle")
    /\ SFrameNext(<<>>, "idle")
    /\ UNCHANGED session

\* an exception left transcribe_audio or summarize_text_offline: /upload does
\* not catch it and Flask answers 500
upload_raised ==
    /\ \/ upc = "transcribing" /\ tpc = "raised"
       \/ upc = "summarizing" /\ spc = "raised"
    /\ resp' = Response(500, Msg("Internal Server Error"))
    /\ upc' = "idle"
    /\ TFrameNext(NotWav, "idle")
    /\ SFrameNext(<<>>, "idle")
    /\ UNCHANGED <<session, records, stages>>

UploadNext == upload_begin \/ upload_transcribed \/ upload_summarized \/ upload_raised

Init == UIdle /\ TFrame(NotWav, "idle") /\ SFrame(<<>>, "idle")

Next == signup \/ login \/ logout \/ UploadNext \/ TranscribeNext \/ SummarizeNext

Spec == Init /\ [][Next]_vars

----------------------------------------------------------------------------
(* Properties *)

\* the concatenation of a sequence of strings
RECURSIVE Concat(_)
Concat(parts) == IF Len(parts) = 0 THEN <<>> ELSE parts[1] \o Concat(Tail(parts))

Min(a, b) == IF a < b THEN a ELSE b
CeilDiv(a, b) == (a + b - 1) \div b

\* the header of the file is outside the accepted format
BadFormat ==
    \/ audio.nchannels # 1
    \/ audio.sampwidth # 2
    \/ audio.framerate < 8000
    \/ audio.framerate > 48000

\* C1: a file whose channel count is not 1, whose sample width is not 2 or
\* whose rate is outside [8000, 48000] makes transcribe_audio return
\* (None, "Audio must be WAV mono PCM (16-bit).") straight after the check:
\* no recognizer is created and no frame batch is read on that run.
C1_BadFormatRejected ==
    (audio.wave_ok /\ BadFormat) =>
        /\ recCalls = 0
        /\ readCalls = 0
        /\ tpc \in {"idle", "open", "validate", "done"}
        /\ tpc = "done" => t_ret = [val |-> NoneV, err |-> Msg(InvalidAudioFormat)]

C1_Witness ==
    /\ tpc = "done"
    /\ audio.nchannels = 2
    /\ audio.framerate = 44100
    /\ t_ret.val = NoneV
    /\ t_ret.err = Msg(InvalidAudioFormat)

\* C2: whenever transcribe_audio has been left, by a return or by an
\* exception, the wave handle it opened is closed.
C2_HandleClosedOnExit == tpc \in {"done", "raised"} => ~audioOpen

C2_Witness == tpc = "raised" /\ t_exc = "AcceptWaveform" /\ audioOpen

\* chunk k of cs is characters (k-1)*1200+1 .. min(k*1200, Len(p)) of p
IsPartition(cs, p) ==
    /\ Len(cs) = CeilDiv(Len(p), 1200)
    /\ \A k \in 1..Len(cs) :
          /\ Len(cs[k]) >= 1
          /\ Len(cs[k]) <= 1200
          /\ cs[k] = SubSeq(p, (k - 1) * 1200 + 1, Min(k * 1200, Len(p)))
    /\ Concat(cs) = p

\* C3: the chunks are contiguous slices of the prompt of at most 1200
\* characters each whose concatenation, in order, is the prompt: both for the
\* chunks a run of summarize_text_offline has built and for the chunking of
\* the prompt of every transcript, the empty and blank ones included.
C3_ChunksPartitionPrompt ==
    /\ IsPartition(Chunks(Prompt(s_text)), TemplateHead \o s_text \o <<10>>)
    /\ spc \in {"loop", "raised"} \/ (spc = "done" /\ s_ret.err = NoneV) =>
          /\ prompt = TemplateHead \o s_text \o <<10>>
          /\ IsPartition(chunks, prompt)

C3_Witness ==
    /\ spc = "done"
    /\ s_ret.err = NoneV
    /\ Len(prompt) = 2400
    /\ Len(chunks) = 2
    /\ Len(chunks[2]) = 1200

\* every character of the transcript is white space
Blank == \A i \in 1..Len(s_text) : s_text[i] \in {9, 10, 11, 12, 13, 32}

\* C4: on an empty or blank transcript summarize_text_offline returns
\* (None, "Empty transcript, cannot summarize.") and the generation model is
\* not invoked.
C4_EmptyTranscriptRejected ==
    (Blank /\ spc # "idle") =>
        /\ calls = <<>>
        /\ spc \in {"check", "done"}
        /\ spc = "done" => s_ret = [val |-> NoneV, err |-> Msg(EmptyTranscript)]

C4_Witness ==
    /\ spc = "done"
    /\ s_text = <<32, 32, 32>>
    /\ s_ret.err = Msg(EmptyTranscript)
    /\ calls = <<>>

\* C5: on a transcript that is not blank, with a prompt of length L, the
\* generation model is invoked on the chunks in left-to-right order, once
\* each; a run that returns has made ceil(L/1200) invocations and returns the
\* answers joined by single spaces, in that order, then stripped.
C5_OneCallPerChunkInOrder ==
    (~Blank /\ spc \in {"loop", "raised", "done"}) =>
        /\ Len(calls) <= CeilDiv(Len(prompt), 1200)
        /\ \A k \in 1..Len(calls) :
              calls[k] = SubSeq(prompt, (k - 1) * 1200 + 1, Min(k * 1200, Len(prompt)))
        /\ Len(outputs) = IF spc = "raised" THEN Len(calls) - 1 ELSE Len(calls)
        /\ spc = "done" =>
              /\ Len(calls) = CeilDiv(Len(prompt), 1200)
              /\ s_ret = [val |-> Str(Strip(JoinSpace(outputs))), err |-> NoneV]

C5_Witness ==
    /\ spc = "done"
    /\ Len(prompt) = 5000
    /\ Len(calls) = 5
    /\ outputs[1] # outputs[2]
    /\ s_ret.err = NoneV

\* C6: when the generation model fails on a chunk, summarize_text_offline
\* returns (None, error).
C6_FailureReturned ==
    s_exc = "summarizer" => (spc = "done" /\ s_ret.val = NoneV /\ Truthy(s_ret.err))

C6_Witness == spc = "raised" /\ s_exc = "summarizer" /\ Len(outputs) = 1

\* C7: when the recognizer raises, on a frame batch or on the final result,
\* transcribe_audio returns (None, error).
C7_FailureReturned ==
    t_exc \in {"AcceptWaveform", "FinalResult"} =>
        (tpc = "done" /\ t_ret.val = NoneV /\ Truthy(t_ret.err))

C7_Witness == tpc = "raised" /\ t_exc = "AcceptWaveform" /\ Len(recLog) = 1

\* the file is a wave file in the accepted format
GoodFormat == audio.wave_ok /\ ~BadFormat

\* the reads of a run on a file in the accepted format: 4000 frames per read
\* until the file is used up, then one read of zero bytes
C8_Reads ==
    GoodFormat =>
        /\ tpc = "loop" => pos = Min(audio.nframes, 4000 * readCalls)
        /\ tpc \in {"final", "done"} =>
              /\ pos = audio.nframes
              /\ readCalls = CeilDiv(audio.nframes, 4000) + 1
        /\ tpc = "done" => (t_ret.err = NoneV /\ t_ret.val.tag = "str")
        /\ tpc = "raised" => t_exc \in {"KaldiRecognizer", "AcceptWaveform", "FinalResult"}

C9_TranscriptIsJoinedSegments ==
    /\ tpc \in {"loop", "final", "done", "raised"} /\ readCalls > 0 =>
          Len(recLog) <= readCalls - (IF tpc = "loop" THEN 0 ELSE 1)
    /\ tpc = "done" /\ t_ret.err = NoneV =>
          /\ Len(finalLog) = 1
          /\ t_ret.val = Str(Strip(JoinSpace(recLog \o finalLog)))

C9_Witness ==
    /\ tpc = "done"
    /\ Len(recLog) = 2
    /\ recLog[1] = <<104, 105>>
    /\ recLog[2] = <<32, 121, 111>>
    /\ finalLog = <<(<<104, 105>>)>>
    /\ t_ret.val = Str(<<104, 105, 32, 32, 121, 111, 32, 104, 105>>)

IsPrefix(a, b) == Len(a) <= Len(b) /\ a = SubSeq(b, 1, Len(a))

\* the stages of a run are entered in the order transcribe, summarize, persist
C10_Order ==
    /\ IsPrefix(stages, <<"transcribe", "summarize", "persist">>)
    /\ upc = "transcribing" => stages = <<"transcribe">>
    /\ upc = "summarizing" => stages = <<"transcribe", "summarize">>
    /\ (upc = "summarizing" /\ spc = "done" /\ s_text = <<>>) =>
          s_ret = [val |-> NoneV, err |-> Msg("Empty transcript, cannot summarize.")]

\* summarize_text_offline is entered only with the transcript of a
\* transcribe_audio that returned without error
C10_SummarizeGate ==
    (spc' = "check" /\ spc # "check") =>
        /\ tpc = "done"
        /\ t_ret.err = NoneV
        /\ t_ret.val.tag = "str"
        /\ s_text' = t_ret.val.s
        /\ stages = <<"transcribe">>

\* a record is stored only for a logged-in user, after both stages succeeded
C10_PersistGate ==
    (records' # records \/ (stages' # stages /\ Len(stages') = 3)) =>
        /\ session # NoneV
        /\ stages = <<"transcribe", "summarize">>
        /\ stages' = <<"transcribe", "summarize", "persist">>
        /\ tpc = "done" /\ t_ret.err = NoneV /\ t_ret.val.tag = "str"
        /\ spc = "done" /\ s_ret.err = NoneV /\ s_ret.val.tag = "str"
        /\ s_text = t_ret.val.s
        /\ s_text # <<>>
        /\ Len(records') = Len(records) + 1
        /\ SubSeq(records', 1, Len(records)) = records
        /\ records'[Len(records')].uid = session.uid
        /\ records'[Len(records')].transcription = t_ret.val
        /\ records'[Len(records')].summary = s_ret.val

\* C10: an /upload run goes through transcribe, summarize and persist in that
\* order; a record is stored only when a user is logged in and both stages
\* returned success; an empty transcript is handed to summarize, which
\* returns the empty-transcript error, and nothing is stored; after a failed
\* transcribe, summarize is not called.
C10_PipelineOrderAndGate ==
    /\ []C10_Order
    /\ [][C10_SummarizeGate]_vars
    /\ [][C10_PersistGate]_vars

C10_Witness ==
    /\ stages = <<"transcribe", "summarize", "persist">>
    /\ Len(records) = 1
    /\ resp # NoneV
    /\ resp.status = 200
    /\ records[1].transcription = Str(<<104, 105>>)

====
